---- MODULE Spec2Model ----
(***************************************************************************)
(* Model of svutRun.py, the SVUT test-flow front end: argument checks,     *)
(* command-pipeline construction for Icarus Verilog and Verilator, and the *)
(* batch loop that runs the pipelines.                                     *)
(*                                                                         *)
(* Strings.  A Python string is modelled as the sequence of the pieces it  *)
(* was concatenated from.  User-supplied strings (paths, simulator name,   *)
(* defines) are sequences of one-character pieces, so that slicing,        *)
(* split(), lower() and the "in" test work on characters; a string literal *)
(* of the source is one piece.  "+" is \o.  The input sets below contain   *)
(* no string that spells a literal of the source with other pieces.        *)
(***************************************************************************)
EXTENDS Integers, Sequences, FiniteSets, TLC

\* ---------------------------------------------------------------- bounds
\* Longest explicit list of paths given to -test.
MaxTargets == 2
\* Longest string given to get_defines when it is called on its own.
MaxDefineLen == 4

\* ------------------------------------------------------- string helpers
\* The strings here are over the characters up to U+00FF.  The capital
\* letters among them past "Z", and what str.lower() makes of each.
NonAsciiCapitals ==
    {"À", "Á", "Â", "Ã", "Ä", "Å", "Æ", "Ç", "È", "É", "Ê", "Ë", "Ì", "Í",
     "Î", "Ï", "Ð", "Ñ", "Ò", "Ó", "Ô", "Õ", "Ö", "Ø", "Ù", "Ú", "Û", "Ü",
     "Ý", "Þ"}

LowerTable ==
    ("À" :> "à") @@ ("Á" :> "á") @@ ("Â" :> "â") @@ ("Ã" :> "ã") @@
    ("Ä" :> "ä") @@ ("Å" :> "å") @@ ("Æ" :> "æ") @@ ("Ç" :> "ç") @@
    ("È" :> "è") @@ ("É" :> "é") @@ ("Ê" :> "ê") @@ ("Ë" :> "ë") @@
    ("Ì" :> "ì") @@ ("Í" :> "í") @@ ("Î" :> "î") @@ ("Ï" :> "ï") @@
    ("Ð" :> "ð") @@ ("Ñ" :> "ñ") @@ ("Ò" :> "ò") @@ ("Ó" :> "ó") @@
    ("Ô" :> "ô") @@ ("Õ" :> "õ") @@ ("Ö" :> "ö") @@ ("Ø" :> "ø") @@
    ("Ù" :> "ù") @@ ("Ú" :> "ú") @@ ("Û" :> "û") @@ ("Ü" :> "ü") @@
    ("Ý" :> "ý") @@ ("Þ" :> "þ")

\* str.lower() on one character
LowerChar(c) ==
    CASE c = "A" -> "a" [] c = "B" -> "b" [] c = "C" -> "c" [] c = "D" -> "d"
      [] c = "E" -> "e" [] c = "F" -> "f" [] c = "G" -> "g" [] c = "H" -> "h"
      [] c = "I" -> "i" [] c = "J" -> "j" [] c = "K" -> "k" [] c = "L" -> "l"
      [] c = "M" -> "m" [] c = "N" -> "n" [] c = "O" -> "o" [] c = "P" -> "p"
      [] c = "Q" -> "q" [] c = "R" -> "r" [] c = "S" -> "s" [] c = "T" -> "t"
      [] c = "U" -> "u" [] c = "V" -> "v" [] c = "W" -> "w" [] c = "X" -> "x"
      [] c = "Y" -> "y" [] c = "Z" -> "z"
      [] OTHER -> IF c \in NonAsciiCapitals THEN LowerTable[c] ELSE c

\* str.lower()
Lower(s) == [k \in 1..Len(s) |-> LowerChar(s[k])]

\* sub in s
Contains(sub, s) ==
    \E k \in 0..(Len(s) - Len(sub)) : SubSeq(s, k + 1, k + Len(sub)) = sub

\* s[-n:]
Last(s, n) == IF Len(s) <= n THEN s ELSE SubSeq(s, Len(s) - n + 1, Len(s))

\* s.startswith(p)
StartsWith(s, p) == Len(s) >= Len(p) /\ SubSeq(s, 1, Len(p)) = p

\* s.endswith(p)
EndsWith(s, p) ==
    Len(s) >= Len(p) /\ SubSeq(s, Len(s) - Len(p) + 1, Len(s)) = p

\* s.split(c): the pieces of s between the occurrences of the character c
RECURSIVE Split(_, _)
Split(s, c) ==
    IF \A k \in 1..Len(s) : s[k] # c
    THEN <<s>>
    ELSE LET p == CHOOSE k \in 1..Len(s) :
                      s[k] = c /\ \A j \in 1..(k - 1) : s[j] # c
         IN  <<SubSeq(s, 1, p - 1)>> \o Split(SubSeq(s, p + 1, Len(s)), c)

\* os.path.basename(p): what follows the last "/"
RECURSIVE Basename(_)
Basename(p) ==
    IF \A k \in 1..Len(p) : p[k] # "/"
    THEN p
    ELSE Basename(Tail(p))

\* sep.join(xs)
RECURSIVE Join(_, _)
Join(xs, sep) ==
    IF xs = <<>> THEN <<>>
    ELSE IF Len(xs) = 1 THEN xs[1]
    ELSE xs[1] \o sep \o Join(Tail(xs), sep)

\* all sequences over S of length at most n
RECURSIVE SeqsUpTo(_, _)
SeqsUpTo(S, n) ==
    IF n = 0 THEN {<<>>}
    ELSE LET R == SeqsUpTo(S, n - 1)
         IN  R \cup {Append(r, x) : r \in {q \in R : Len(q) = n - 1}, x \in S}

\* all orderings of the finite set S
RECURSIVE Orderings(_)
Orderings(S) ==
    IF S = {} THEN {<<>>}
    ELSE UNION {{<<x>> \o r : r \in Orderings(S \ {x})} : x \in S}

\* ------------------------------------------------------------ inputs
\* Simulator names given to -sim.
SimIcarus    == <<"i", "c", "a", "r", "u", "s">>
SimVerilator == <<"V", "e", "r", "i", "l", "a", "t", "o", "r">>
SimOther     == <<"v", "c", "s">>
SimBoth ==
    <<"I", "C", "A", "R", "U", "S", "/", "v", "e", "r", "i", "l", "a", "t", "o", "r">>
SimIverilog  == <<"I", "v", "e", "r", "i", "l", "o", "g">>
Sims == {SimIcarus, SimIverilog, SimVerilator, SimOther, SimBoth}

\* Testbench paths: two with the same base name, one that discovery does
\* not recognise, one that discovery recognises but whose extension is not
\* supported.
TbAV   == <<"t", "b", "_", "a", ".", "v">>
TbASV  == <<"t", "b", "_", "a", ".", "s", "v">>
BV     == <<"b", ".", "v">>
TbCTxt == <<"t", "b", "_", "c", ".", "t", "x", "t">>
Paths == {TbAV, TbASV, BV, TbCTxt}

\* Manifest paths given to -f.
FilesF == <<"f", "i", "l", "e", "s", ".", "f">>
XF     == <<"x", ".", "f">>

\* The -f, -include, -define, -vpi and -main options: the defaults of the
\* parser, and one invocation that sets them all.
MainDefault == <<"s", "i", "m", "_", "m", "a", "i", "n", ".", "c", "p", "p">>
OptDefaults ==
    [dotfile |-> <<FilesF>>, include |-> <<>>, main |-> MainDefault,
     define |-> <<>>, vpi |-> <<>>]
OptAllSet ==
    [dotfile |-> <<XF, FilesF>>, include |-> <<<<"i", "n", "c">>, <<"r", "t", "l">>>>,
     main |-> <<"m", ".", "c", "p", "p">>,
     define |-> <<"A", ";", ";", "B", "=", "2">>, vpi |-> <<"-", "M", ".">>]
OptionSets == {OptDefaults, OptAllSet}

\* args.test: the default is the string "all"; a given -test is a list.
TestAll == [isstr |-> TRUE, v |-> <<"a", "l", "l">>]
TestList(l) == [isstr |-> FALSE, v |-> l]
TestSelectors == {TestAll} \cup {TestList(l) : l \in SeqsUpTo(Paths, MaxTargets)}

\* ------------------------------------------------------ file names
SvutOut == <<"svut.out">>
\* "build/V" + testname + ".mk"
VerilatorMk(testname) == <<"build/V">> \o testname \o <<".mk">>
\* "build/V" + testname
VerilatorExe(testname) == <<"build/V">> \o testname
\* os.path.basename(test).split(".")[0]
TestName(test) == Split(Basename(test), ".")[1]

\* ------------------------------------------------- functions of the program
\* check_arguments without the test for compile-only together with run-only
check_arguments_noconflict(args) ==
    IF ~(Contains(<<"i", "v", "e", "r", "i", "l", "o", "g">>, args.simulator)
           \/ Contains(<<"i", "c", "a", "r", "u", "s">>, args.simulator))
       /\ ~Contains(<<"v", "e", "r", "i", "l", "a", "t", "o", "r">>, args.simulator)
    THEN "ERROR: Simulator not supported"
    ELSE IF args.test.isstr /\ args.test.v = <<>>
    THEN "ERROR: No testcase passed"
    ELSE IF (args.compile_only \/ args.run_only) /\ args.test = TestAll
    THEN "ERROR: compile-only or run-only can't be used with multiple testbenchs"
    ELSE ""

\* The message check_arguments exits on, "" when it returns 0.
check_arguments(args) ==
    IF ~(Contains(<<"i", "v", "e", "r", "i", "l", "o", "g">>, args.simulator)
           \/ Contains(<<"i", "c", "a", "r", "u", "s">>, args.simulator))
       /\ ~Contains(<<"v", "e", "r", "i", "l", "a", "t", "o", "r">>, args.simulator)
    THEN "ERROR: Simulator not supported"
    ELSE IF args.test.isstr /\ args.test.v = <<>>
    THEN "ERROR: No testcase passed"
    ELSE IF args.compile_only /\ args.run_only
    THEN "ERROR: Both compile-only and run-only are used"
    ELSE IF (args.compile_only \/ args.run_only) /\ args.test = TestAll
    THEN "ERROR: compile-only or run-only can't be used with multiple testbenchs"
    ELSE ""

\* TRUE when check_tb_extension returns, FALSE when it exits.
check_tb_extension(test) ==
    ~(Last(test, 2) # <<".", "v">> /\ Last(test, 3) # <<".", "s", "v">>)

supported_prefix ==
    { <<"t", "b", "_">>, <<"t", "s", "_">>,
      <<"t", "e", "s", "t", "b", "e", "n", "c", "h", "_">>,
      <<"t", "e", "s", "t", "s", "u", "i", "t", "e", "_">>,
      <<"u", "n", "i", "t", "_", "t", "e", "s", "t", "_">> }

supported_suffix ==
    { s \o e : s \in { <<"_", "u", "n", "i", "t", "_", "t", "e", "s", "t">>,
                       <<"_", "t", "e", "s", "t", "b", "e", "n", "c", "h">>,
                       <<"_", "t", "e", "s", "t", "s", "u", "i", "t", "e">>,
                       <<"_", "t", "b">>, <<"_", "t", "s">> },
              e \in { <<".", "v">>, <<".", "s", "v">> } }

\* The lists find_unit_tests can return for the files of the current folder:
\* list(set(files)) has no fixed order.
find_unit_tests(folder) ==
    Orderings({f \in folder : \/ \E s \in supported_suffix : EndsWith(f, s)
                              \/ \E p \in supported_prefix : StartsWith(f, p)})

\* the loop of get_defines without the test that skips empty pieces
RECURSIVE DefFlags_keepempty(_)
DefFlags_keepempty(defs) ==
    IF defs = <<>> THEN <<>>
    ELSE <<"-D">> \o Head(defs) \o <<" ">> \o DefFlags_keepempty(Tail(defs))

\* get_defines(defines)
RECURSIVE DefFlags(_)
DefFlags(defs) ==
    IF defs = <<>> THEN <<>>
    ELSE (IF Head(defs) # <<>> THEN <<"-D">> \o Head(defs) \o <<" ">> ELSE <<>>)
         \o DefFlags(Tail(defs))
get_defines(defines) ==
    IF defines = <<>> THEN <<>> ELSE DefFlags(Split(defines, ";"))

\* the loop over args.dotfile without the os.path.isfile test
RECURSIVE DotFiles_all(_, _)
DotFiles_all(dotfile, fs) ==
    IF dotfile = <<>> THEN <<>>
    ELSE Head(dotfile) \o <<" ">> \o DotFiles_all(Tail(dotfile), fs)

\* the loop over args.dotfile: the manifests that exist, each followed by " "
RECURSIVE DotFiles(_, _)
DotFiles(dotfile, fs) ==
    IF dotfile = <<>> THEN <<>>
    ELSE (IF Head(dotfile) \in fs THEN Head(dotfile) \o <<" ">> ELSE <<>>)
         \o DotFiles(Tail(dotfile), fs)

\* the "-f" part of a compile command
DotFileFlag(dotfile, fs) ==
    IF dotfile # <<>> /\ DotFiles(dotfile, fs) # <<>>
    THEN <<"-f ">> \o DotFiles(dotfile, fs) \o <<" ">>
    ELSE <<>>

IverilogHead == "iverilog -g2012 -Wall -o svut.out "
\* the command create_iverilog builds when it builds the executable
IverilogCompile(args, test, fs) ==
    <<IverilogHead>>
    \o (IF args.define # <<>> THEN get_defines(args.define) ELSE <<>>)
    \o DotFileFlag(args.dotfile, fs)
    \o (IF args.include # <<>>
        THEN <<"-I ">> \o Join(args.include, <<" ">>) \o <<" ">> ELSE <<>>)
    \o test \o <<" ">>

\* the command create_iverilog builds to execute the testbench
IverilogExecute(args) ==
    <<"vvp ">>
    \o (IF args.vpi # <<>> THEN args.vpi \o <<" ">> ELSE <<>>)
    \o <<"svut.out ">>

\* create_iverilog with the two steps appended in the other order
create_iverilog_swapped(args, test, fs) ==
    LET a == IF SvutOut \notin fs THEN [args EXCEPT !.run_only = FALSE] ELSE args
    IN  [args |-> a,
         cmds |-> (IF ~a.compile_only THEN <<IverilogExecute(a)>> ELSE <<>>)
                  \o (IF ~a.run_only THEN <<IverilogCompile(a, test, fs)>> ELSE <<>>)]

\* create_iverilog as an incremental build: an existing svut.out is reused
\* whenever no build was asked for explicitly
create_iverilog_reuse(args, test, fs) ==
    LET a == IF SvutOut \notin fs THEN [args EXCEPT !.run_only = FALSE] ELSE args
    IN  [args |-> a,
         cmds |-> (IF ~a.run_only /\ (a.compile_only \/ SvutOut \notin fs)
                   THEN <<IverilogCompile(a, test, fs)>> ELSE <<>>)
                  \o (IF ~a.compile_only THEN <<IverilogExecute(a)>> ELSE <<>>)]

\* create_iverilog(args, test): the commands, and args as the call leaves it
create_iverilog(args, test, fs) ==
    LET a == IF SvutOut \notin fs THEN [args EXCEPT !.run_only = FALSE] ELSE args
    IN  [args |-> a,
         cmds |-> (IF ~a.run_only THEN <<IverilogCompile(a, test, fs)>> ELSE <<>>)
                  \o (IF ~a.compile_only THEN <<IverilogExecute(a)>> ELSE <<>>)]

VerilatorHead ==
    "verilator -Wall --trace --Mdir build +1800-2012ext+sv +1800-2005ext+v -Wno-STMTDLY -Wno-UNUSED -Wno-UNDRIVEN -Wno-PINCONNECTEMPTY -Wpedantic -Wno-VARHIDDEN -Wno-lint "

RECURSIVE IncDirs(_)
IncDirs(include) ==
    IF include = <<>> THEN <<>>
    ELSE <<"+incdir+">> \o Head(include) \o <<" ">> \o IncDirs(Tail(include))

\* the command create_verilator builds when it builds the executable
VerilatorCompile(args, test, fs) ==
    <<VerilatorHead>>
    \o (IF args.define # <<>> THEN get_defines(args.define) ELSE <<>>)
    \o DotFileFlag(args.dotfile, fs)
    \o IncDirs(args.include)
    \o <<"-cc --exe --build -j --top-module ">> \o TestName(test) \o <<" ">>
    \o test \o <<" ">> \o args.main

\* the command create_verilator builds to execute the testbench
VerilatorExecute(test) == VerilatorExe(TestName(test))

\* create_verilator without the promotion of run-only when the marker file
\* is missing
create_verilator_nopromote(args, test, fs) ==
    [args |-> args,
     cmds |-> (IF ~args.run_only THEN <<VerilatorCompile(args, test, fs)>> ELSE <<>>)
              \o (IF ~args.compile_only THEN <<VerilatorExecute(test)>> ELSE <<>>)]

\* create_verilator with the execute step guarded by run_only's complement
\* instead of compile_only's
create_verilator_wrongguard(args, test, fs) ==
    LET a == IF VerilatorMk(TestName(test)) \notin fs
             THEN [args EXCEPT !.run_only = FALSE] ELSE args
    IN  [args |-> a,
         cmds |-> (IF ~a.run_only THEN <<VerilatorCompile(a, test, fs)>> ELSE <<>>)
                  \o (IF ~a.run_only THEN <<VerilatorExecute(test)>> ELSE <<>>)]

\* create_verilator(args, test): the commands, and args as the call leaves it
create_verilator(args, test, fs) ==
    LET a == IF VerilatorMk(TestName(test)) \notin fs
             THEN [args EXCEPT !.run_only = FALSE] ELSE args
    IN  [args |-> a,
         cmds |-> (IF ~a.run_only THEN <<VerilatorCompile(a, test, fs)>> ELSE <<>>)
                  \o (IF ~a.compile_only THEN <<VerilatorExecute(test)>> ELSE <<>>)]

\* the backend tests of the batch loop
IsIcarus(simulator) ==
    \/ Contains(<<"i", "v", "e", "r", "i", "l", "o", "g">>, simulator)
    \/ Contains(<<"i", "c", "a", "r", "u", "s">>, simulator)
IsVerilator(simulator) ==
    Contains(<<"v", "e", "r", "i", "l", "a", "t", "o", "r">>, simulator)

\* what a command is, read off its first piece
IsCompileCmd(cmd) == cmd # <<>> /\ cmd[1] \in {IverilogHead, VerilatorHead}
IsExecuteCmd(cmd) == cmd # <<>> /\ cmd[1] \in {"vvp ", "build/V"}

\* ------------------------------------------------------------- state
VARIABLES
    git,        \* what running "git describe" in the script's folder does:
                \* "tagged", "untagged" or "missing" (never assigned)
    GIT_TAG,    \* the version string get_git_tag returned
    argv,       \* the options as parsed from the command line (never assigned)
    ARGS,       \* the argparse namespace the program reads and assigns
    files,      \* the names of the files that exist
    pc,         \* "check", "for" (head of the batch loop), "cmd" (inside the
                \* loop over CMDS), "exit"
    i,          \* number of elements of ARGS.test the batch loop has finished
    CMDS,       \* the pipeline of the current testbench
    ci,         \* number of commands of CMDS the inner loop has finished
    cmdret,     \* the failure counter
    start,      \* 0 while the name start is unbound, else the position in
                \* ARGS.test of the testbench the timer was last started for
    exitcode,   \* exit status of the process, -1 while it runs
    error,      \* the error the process died of, "" if none
    pipelines,  \* history: the pipelines built, in order
    executed,   \* history: the calls of os.system, in order
    printed,    \* history: the commands printed, in order
    simdefs,    \* the value returned by a call of get_defines on its own
    svut_out_by \* the position in ARGS.test of the testbench whose build
                \* last wrote svut.out, 0 if no build of this run wrote it

vars == <<git, GIT_TAG, argv, ARGS, files, pc, i, CMDS, ci, cmdret, start, exitcode, error,
          pipelines, executed, printed, simdefs,
          svut_out_by>>

SvutH == <<"s", "v", "u", "t", "_", "h", ".", "s", "v">>
NoExtensionError ==
    "ERROR: Failed to find supported extension. Must use either *.v or *.sv"

\* elements of a sequence
Range(s) == {s[k] : k \in 1..Len(s)}

\* what os.listdir(os.getcwd()) shows: the files outside build/
Folder(fs) ==
    {f \in fs : f # <<>> /\ \A k \in 1..Len(f) : f[k] \notin {"/", "build/V"}}

\* What subprocess.check_output(["git", "describe", ...]) meets: a repository
\* with a tag (git prints it), git exiting nonzero (no tag, or no
\* repository), or no git executable to start.
Gits == {"tagged", "untagged", "missing"}

\* the bytes git prints for a tagged repository
GitDescribeOutput == <<"v", "1", "\n">>

Whitespace == {" ", "\t", "\n", "\r", "\f", ""}

\* bytes.strip()
RECURSIVE Strip(_)
Strip(s) ==
    IF s = <<>> THEN <<>>
    ELSE IF Head(s) \in Whitespace THEN Strip(Tail(s))
    ELSE IF s[Len(s)] \in Whitespace THEN Strip(SubSeq(s, 1, Len(s) - 1))
    ELSE s

\* get_git_tag() when check_output returns or raises CalledProcessError
get_git_tag(g) ==
    IF g = "tagged" THEN Strip(GitDescribeOutput) ELSE <<"v0.0.0">>

\* PARSER.parse_args(): the namespaces the input sets give
ParsedArgs ==
    { [simulator |-> s, test |-> t, dotfile |-> o.dotfile, include |-> o.include,
       main |-> o.main, define |-> o.define, vpi |-> o.vpi,
       run_only |-> r, compile_only |-> c, dry |-> d, version |-> v] :
      s \in Sims, t \in TestSelectors, o \in OptionSets,
      r \in BOOLEAN, c \in BOOLEAN, d \in BOOLEAN, v \in BOOLEAN }

\* a testbench in a subfolder, which os.listdir does not show
SubTb == <<"d", "/", "a", "_", "t", "b", ".", "v">>

\* The files present when the program starts: testbench sources (those named
\* on the command line, or any for discovery), with manifests and the
\* artifacts of an earlier build of tb_a, or with the header an earlier run
\* copied, or with a testbench in a subfolder.
InitialFiles(a) ==
    LET Sources == IF a.test.isstr THEN SUBSET Paths ELSE {Range(a.test.v)}
    IN  { src \cup man \cup art :
            src \in Sources,
            man \in SUBSET {FilesF, XF},
            art \in { x \cup y : x \in {{}, {SvutOut}},
                                y \in {{}, {VerilatorMk(TestName(TbAV)),
                                            VerilatorExe(TestName(TbAV))}} } }
        \cup { src \cup other : src \in Sources, other \in {{SvutH}, {SubTb}} }

Init ==
    /\ git \in Gits
    /\ GIT_TAG = <<>>
    /\ argv \in ParsedArgs
    /\ ARGS = argv
    /\ files \in InitialFiles(argv)
    /\ pc = "check"
    /\ i = 0
    /\ CMDS = <<>>
    /\ ci = 0
    /\ cmdret = 0
    /\ start = 0
    /\ exitcode = -1
    /\ error = ""
    /\ pipelines = <<>>
    /\ executed = <<>>
    /\ printed = <<>>
    /\ simdefs = <<>>
    /\ svut_out_by = 0

\* sys.exit(code) with the message printed before it
Exit(code, msg) ==
    /\ pc' = "exit"
    /\ exitcode' = code % 256
    /\ error' = msg

\* the simulator name used as given
Lowered_asgiven == ARGS

\* ARGS.simulator = ARGS.simulator.lower()
Lowered == [ARGS EXCEPT !.simulator = Lower(ARGS.simulator)]

\* get_git_tag() catches CalledProcessError only: with no git executable
\* check_output raises FileNotFoundError, which nothing catches, and the
\* interpreter ends the process with status 1 before ARGS.version is read
GitTagError ==
    /\ pc = "check"
    /\ git = "missing"
    /\ Exit(1, "FileNotFoundError")
    /\ UNCHANGED <<git, GIT_TAG, argv, simdefs, svut_out_by, ARGS, files, i, CMDS,
                   ci, cmdret, start, pipelines, executed, printed>>

\* GIT_TAG = get_git_tag(), then -version: helper(GIT_TAG) prints the banner
\* and the run ends with status 0 before the simulator name is lowered and
\* before check_arguments
VersionExit ==
    /\ pc = "check"
    /\ git # "missing"
    /\ GIT_TAG' = get_git_tag(git)
    /\ ARGS.version
    /\ Exit(0, "")
    /\ UNCHANGED <<git, argv, simdefs, svut_out_by, ARGS, files, i, CMDS, ci, cmdret,
                   start, pipelines, executed, printed>>

\* check_arguments exits
CheckReject ==
    /\ pc = "check"
    /\ git # "missing"
    /\ GIT_TAG' = get_git_tag(git)
    /\ ~ARGS.version
    /\ check_arguments(Lowered) # ""
    /\ ARGS' = Lowered
    /\ Exit(1, check_arguments(Lowered))
    /\ UNCHANGED <<git, argv, simdefs, svut_out_by, files, i, CMDS, ci, cmdret, start,
                   pipelines, executed, printed>>

\* copy_svut_h(): the header is copied into the folder with "cp" when it is
\* not there or differs from the one beside the script (org is whether that
\* one exists).  The status of cp is not read, so after a copy that failed
\* the header is still absent.  With a header in the folder and none beside
\* the script filecmp.cmp raises FileNotFoundError, which nothing catches.
\* The outcomes: the exception raised, or the files after the return.
copy_svut_h(fs, org) ==
    IF SvutH \in fs
    THEN IF org THEN {[raised |-> FALSE, files |-> fs]}
                ELSE {[raised |-> TRUE, files |-> fs]}
    ELSE IF org THEN {[raised |-> FALSE, files |-> fs \cup {SvutH}],
                      [raised |-> FALSE, files |-> fs]}
                ELSE {[raised |-> FALSE, files |-> fs]}

\* check_arguments returns; discovery when ARGS.test is "all"; copy_svut_h
\* raises and the interpreter ends the process with status 1
CopyHeaderError ==
    /\ pc = "check"
    /\ git # "missing"
    /\ GIT_TAG' = get_git_tag(git)
    /\ ~ARGS.version
    /\ check_arguments(Lowered) = ""
    /\ \E l \in (IF Lowered.test = TestAll
                 THEN find_unit_tests(Folder(files)) ELSE {Lowered.test.v}) :
          ARGS' = [Lowered EXCEPT !.test = TestList(l)]
    /\ \E org \in BOOLEAN : \E o \in copy_svut_h(files, org) : o.raised
    /\ Exit(1, "FileNotFoundError")
    /\ UNCHANGED <<git, argv, simdefs, svut_out_by, files, i, CMDS, ci, cmdret,
                   start, pipelines, executed, printed>>

\* check_arguments returns; discovery when ARGS.test is "all"; copy_svut_h;
\* cmdret = 0
CheckAccept ==
    /\ pc = "check"
    /\ git # "missing"
    /\ GIT_TAG' = get_git_tag(git)
    /\ ~ARGS.version
    /\ check_arguments(Lowered) = ""
    /\ \E l \in (IF Lowered.test = TestAll
                 THEN find_unit_tests(Folder(files)) ELSE {Lowered.test.v}) :
          ARGS' = [Lowered EXCEPT !.test = TestList(l)]
    /\ \E org \in BOOLEAN : \E o \in copy_svut_h(files, org) :
          ~o.raised /\ files' = o.files
    /\ cmdret' = 0
    /\ pc' = "for"
    /\ UNCHANGED <<git, argv, simdefs, svut_out_by, i, CMDS, ci, start, exitcode, error,
                   pipelines, executed, printed>>

\* the testbench the batch loop is at
CurrentTest == ARGS.test.v[i + 1]

\* check_tb_extension exits
ExtensionReject ==
    /\ pc = "for"
    /\ i < Len(ARGS.test.v)
    /\ ~check_tb_extension(CurrentTest)
    /\ Exit(1, NoExtensionError)
    /\ UNCHANGED <<git, GIT_TAG, argv, simdefs, svut_out_by, ARGS, files, i, CMDS, ci, cmdret, start,
                   pipelines, executed, printed>>

\* CMDS = create_iverilog(ARGS, tests) or create_verilator(ARGS, tests)
Created ==
    IF IsIcarus(ARGS.simulator)
    THEN create_iverilog(ARGS, CurrentTest, files)
    ELSE create_verilator(ARGS, CurrentTest, files)

\* the artifact the backend looks for before it builds the pipeline
Artifact(simulator, test) ==
    IF IsIcarus(simulator) THEN SvutOut ELSE VerilatorMk(TestName(test))

\* one iteration of the batch loop up to the loop over CMDS: the extension
\* is supported, the pipeline is built, the timer is started
BuildPipeline ==
    /\ pc = "for"
    /\ i < Len(ARGS.test.v)
    /\ check_tb_extension(CurrentTest)
    /\ IsIcarus(ARGS.simulator) \/ IsVerilator(ARGS.simulator)
    /\ ARGS' = Created.args
    /\ CMDS' = Created.cmds
    /\ start' = i + 1
    /\ ci' = 0
    /\ pipelines' = Append(pipelines,
          [t |-> i + 1, test |-> CurrentTest, cmds |-> Created.cmds,
           icarus |-> IsIcarus(ARGS.simulator),
           artifact |-> Artifact(ARGS.simulator, CurrentTest) \in files])
    /\ IF Created.cmds = <<>>
       THEN pc' = "for" /\ i' = i + 1
       ELSE pc' = "cmd" /\ i' = i
    /\ UNCHANGED <<git, GIT_TAG, argv, simdefs, svut_out_by, files, cmdret, exitcode, error, executed, printed>>

\* the command the inner loop is at
CMD == CMDS[ci + 1]

\* the inner loop moves on: to the next command, or out of the loop
NextCommand ==
    /\ ci' = ci + 1
    /\ IF ci + 1 = Len(CMDS)
       THEN pc' = "for" /\ i' = i + 1
       ELSE pc' = "cmd" /\ i' = i

\* the files a successful command leaves: a build writes its artifact
FilesAfter(cmd, test, fs) ==
    IF cmd[1] = IverilogHead THEN fs \cup {SvutOut}
    ELSE IF cmd[1] = VerilatorHead
    THEN fs \cup {VerilatorMk(TestName(test)), VerilatorExe(TestName(test))}
    ELSE fs

\* dry run: the command is printed and not executed
DryCommand ==
    /\ pc = "cmd"
    /\ ARGS.dry
    /\ printed' = Append(printed, [t |-> i + 1, c |-> ci + 1, cmd |-> CMD])
    /\ NextCommand
    /\ UNCHANGED <<git, GIT_TAG, argv, simdefs, svut_out_by, ARGS, files, CMDS, cmdret, start, exitcode, error,
                   pipelines, executed>>

\* os.system(CMD) returns 0
CommandOk ==
    /\ pc = "cmd"
    /\ ~ARGS.dry
    /\ printed' = Append(printed, [t |-> i + 1, c |-> ci + 1, cmd |-> CMD])
    /\ executed' = Append(executed, [t |-> i + 1, c |-> ci + 1, cmd |-> CMD, rc |-> 0])
    /\ files' = FilesAfter(CMD, CurrentTest, files)
    /\ svut_out_by' = IF CMD[1] = IverilogHead THEN i + 1 ELSE svut_out_by
    /\ NextCommand
    /\ UNCHANGED <<git, GIT_TAG, argv, simdefs, ARGS, CMDS, cmdret, start, exitcode, error,
                   pipelines>>

\* a failing command counted without the break
CommandFailNoBreak ==
    /\ pc = "cmd"
    /\ ~ARGS.dry
    /\ printed' = Append(printed, [t |-> i + 1, c |-> ci + 1, cmd |-> CMD])
    /\ executed' = Append(executed, [t |-> i + 1, c |-> ci + 1, cmd |-> CMD, rc |-> 1])
    /\ cmdret' = cmdret + 1
    /\ NextCommand
    /\ UNCHANGED <<git, GIT_TAG, argv, simdefs, svut_out_by, ARGS, files, CMDS, start, exitcode, error, pipelines>>

\* a failing command that ends the run instead of the pipeline
CommandFailAbort ==
    /\ pc = "cmd"
    /\ ~ARGS.dry
    /\ printed' = Append(printed, [t |-> i + 1, c |-> ci + 1, cmd |-> CMD])
    /\ executed' = Append(executed, [t |-> i + 1, c |-> ci + 1, cmd |-> CMD, rc |-> 1])
    /\ cmdret' = cmdret + 1
    /\ Exit(cmdret + 1, "")
    /\ UNCHANGED <<git, GIT_TAG, argv, simdefs, svut_out_by, ARGS, files, i, CMDS, ci, start, pipelines>>

\* os.system(CMD) returns nonzero: count the failure and break
CommandFail ==
    /\ pc = "cmd"
    /\ ~ARGS.dry
    /\ printed' = Append(printed, [t |-> i + 1, c |-> ci + 1, cmd |-> CMD])
    /\ executed' = Append(executed, [t |-> i + 1, c |-> ci + 1, cmd |-> CMD, rc |-> 1])
    /\ cmdret' = cmdret + 1
    /\ pc' = "for"
    /\ i' = i + 1
    /\ UNCHANGED <<git, GIT_TAG, argv, simdefs, svut_out_by, ARGS, files, CMDS, ci, start, exitcode, error, pipelines>>

\* after the batch loop: end - start with start unbound raises NameError,
\* and the interpreter exits with status 1
FinishNameError ==
    /\ pc = "for"
    /\ i = Len(ARGS.test.v)
    /\ start = 0
    /\ Exit(1, "NameError")
    /\ UNCHANGED <<git, GIT_TAG, argv, simdefs, svut_out_by, ARGS, files, i, CMDS, ci, cmdret, start,
                   pipelines, executed, printed>>

\* after the batch loop: sys.exit(cmdret)
FinishExit ==
    /\ pc = "for"
    /\ i = Len(ARGS.test.v)
    /\ start # 0
    /\ Exit(cmdret, "")
    /\ UNCHANGED <<git, GIT_TAG, argv, simdefs, svut_out_by, ARGS, files, i, CMDS, ci, cmdret, start,
                   pipelines, executed, printed>>

Next ==
    \/ GitTagError
    \/ VersionExit
    \/ CheckReject
    \/ CheckAccept
    \/ CopyHeaderError
    \/ ExtensionReject
    \/ BuildPipeline
    \/ DryCommand
    \/ CommandOk
    \/ CommandFail
    \/ FinishNameError
    \/ FinishExit

Spec == Init /\ [][Next]_vars

\* The runs with the parser's defaults for -f, -include, -define, -vpi and
\* -main and no manifest on disk.
InitDefaults ==
    /\ Init
    /\ \A f \in {"dotfile", "include", "main", "define", "vpi"} :
          argv[f] = OptDefaults[f]
    /\ files \cap {FilesF, XF} = {}

\* every command returns and the interpreter keeps running the script
FairSpec == InitDefaults /\ [][Next]_vars /\ WF_vars(Next)

\* ---------------------------------------- get_defines called on its own
\* the define strings: a name, another name, and the separator
DefineStrings == SeqsUpTo({"A", "B", ";"}, MaxDefineLen)

InitDefines ==
    /\ argv \in { [simulator |-> SimIcarus, test |-> TestList(<<>>),
                   dotfile |-> OptDefaults.dotfile, include |-> OptDefaults.include,
                   main |-> OptDefaults.main, define |-> d, vpi |-> OptDefaults.vpi,
                   run_only |-> FALSE, compile_only |-> FALSE, dry |-> FALSE,
                   version |-> FALSE] :
                  d \in DefineStrings }
    /\ git = "tagged"
    /\ GIT_TAG = <<>>
    /\ ARGS = argv
    /\ files = {}
    /\ pc = "get_defines"
    /\ i = 0
    /\ CMDS = <<>>
    /\ ci = 0
    /\ cmdret = 0
    /\ start = 0
    /\ exitcode = -1
    /\ error = ""
    /\ pipelines = <<>>
    /\ executed = <<>>
    /\ printed = <<>>
    /\ simdefs = <<>>
    /\ svut_out_by = 0

\* simdefs = get_defines(ARGS.define)
CallGetDefines ==
    /\ pc = "get_defines"
    /\ simdefs' = get_defines(ARGS.define)
    /\ pc' = "returned"
    /\ UNCHANGED <<git, GIT_TAG, argv, ARGS, files, i, CMDS, ci, cmdret, start, exitcode,
                   error, pipelines, executed, printed, svut_out_by>>

DefinesSpec == InitDefines /\ [][CallGetDefines]_vars

TypeOK ==
    /\ pc \in {"check", "for", "cmd", "exit", "get_defines", "returned"}
    /\ exitcode \in -1..255
    /\ (pc = "exit") = (exitcode # -1)
    /\ cmdret \in Nat
    /\ i \in 0..Len(ARGS.test.v)
    /\ git \in Gits
    /\ GIT_TAG \in {<<>>, get_git_tag(git)}
    /\ (pc \in {"for", "cmd"}) => GIT_TAG = get_git_tag(git)

\* =============================================================== claims
\* The run is one of the test flow: the version string was resolved and
\* -version was not given.  A run with -version only prints the version and
\* ends with status 0, and a run with no git executable dies in get_git_tag
\* (line 291); the claims are about the runs that go on to line 362.
FlowRun == ~argv.version /\ git # "missing"

\* The run also got past the copy of the header (line 372), one-time setup
\* that ends an installation without svut_h.sv beside the script.
BatchRun == FlowRun /\ error # "FileNotFoundError"

\* the requested mode, as given on the command line
RequestedNormal      == ~argv.run_only /\ ~argv.compile_only
RequestedRunOnly     == argv.run_only /\ ~argv.compile_only
RequestedCompileOnly == argv.compile_only /\ ~argv.run_only

\* the shapes a pipeline can have
CompileThenExecute(cmds) ==
    Len(cmds) = 2 /\ IsCompileCmd(cmds[1]) /\ IsExecuteCmd(cmds[2])
ExecuteAlone(cmds) == Len(cmds) = 1 /\ IsExecuteCmd(cmds[1])
CompileAlone(cmds) == Len(cmds) = 1 /\ IsCompileCmd(cmds[1])

\* the messages check_arguments exits on
ArgumentErrors ==
    { "ERROR: Simulator not supported", "ERROR: No testcase passed",
      "ERROR: Both compile-only and run-only are used",
      "ERROR: compile-only or run-only can't be used with multiple testbenchs" }

\* nothing has been built, printed or executed for any target
NothingBuiltOrRun == pipelines = <<>> /\ executed = <<>> /\ printed = <<>>

\* number of calls of os.system that returned nonzero
Failures == Cardinality({k \in 1..Len(executed) : executed[k].rc # 0})

\* C1: in Normal mode every pipeline built, for either backend, is the
\* compile command followed by the execute command, whether or not the
\* artifact existed when it was built.
C1_NormalCompileThenExecute ==
    RequestedNormal =>
        \A k \in 1..Len(pipelines) : CompileThenExecute(pipelines[k].cmds)

\* C1 witness: a Normal-mode batch built one pipeline with the artifact
\* present and one with the artifact absent.
C1_Witness ==
    /\ RequestedNormal
    /\ \E k \in 1..Len(pipelines) : pipelines[k].artifact
    /\ \E k \in 1..Len(pipelines) : ~pipelines[k].artifact

\* C2 (as claimed): in a run whose requested mode is RunOnly, every pipeline
\* built for a target whose artifact exists at that moment is the execute
\* command alone.
C2_RunOnlyArtifactExecuteAlone ==
    RequestedRunOnly =>
        \A k \in 1..Len(pipelines) :
            pipelines[k].artifact => ExecuteAlone(pipelines[k].cmds)

\* C3: when the requested mode is RunOnly and the artifact of the target is
\* missing, the pipeline is the compile command followed by the execute
\* command.
C3_RunOnlyMissingArtifactPromoted ==
    RequestedRunOnly =>
        \A k \in 1..Len(pipelines) :
            ~pipelines[k].artifact => CompileThenExecute(pipelines[k].cmds)

\* C3 witness: a RunOnly run has built a pipeline for a target without
\* artifact and is about to run it.
C3_Witness ==
    /\ RequestedRunOnly
    /\ \E k \in 1..Len(pipelines) : ~pipelines[k].artifact
    /\ pc = "cmd"

\* C4: when the requested mode is CompileOnly every pipeline is the compile
\* command alone, whether or not the artifact existed.
C4_CompileOnlyCompileAlone ==
    RequestedCompileOnly =>
        \A k \in 1..Len(pipelines) : CompileAlone(pipelines[k].cmds)

\* C4 witness: a CompileOnly run built a pipeline for a target whose
\* artifact already existed.
C4_Witness ==
    /\ RequestedCompileOnly
    /\ \E k \in 1..Len(pipelines) : pipelines[k].artifact

\* C5: after a command of a pipeline returned nonzero, no later command of
\* that pipeline is executed.
C5_NoCommandAfterFailure ==
    \A j, k \in 1..Len(executed) :
        (j < k /\ executed[j].t = executed[k].t) => executed[j].rc = 0

\* C5 witness: the compile command of a two-command pipeline failed and the
\* run has ended.
C5_Witness ==
    /\ pc = "exit"
    /\ \E k \in 1..Len(executed) :
          /\ executed[k].rc # 0
          /\ executed[k].c = 1
          /\ \E p \in 1..Len(pipelines) :
                pipelines[p].t = executed[k].t /\ Len(pipelines[p].cmds) = 2

\* C6 (as claimed): a batch that passed validation exits with the number of
\* command failures, which is zero exactly when every testbench passed.
C6_ExitCodeIsFailureCount ==
    (BatchRun /\ pc = "exit"
       /\ error \notin ArgumentErrors \cup {NoExtensionError}) =>
        /\ exitcode = Failures
        /\ (exitcode = 0) = (\A k \in 1..Len(executed) : executed[k].rc = 0)

\* every target given to the batch loop has a supported extension
AllSupported == \A k \in 1..Len(ARGS.test.v) : check_tb_extension(ARGS.test.v[k])

\* number of pipelines built for the target at position k
Builds(k) == Cardinality({p \in 1..Len(pipelines) : pipelines[p].t = k})

\* number of times the first command of the target at position k was reached
\* (printed, and executed unless dry-run)
FirstStarts(k) ==
    Cardinality({p \in 1..Len(printed) : printed[p].t = k /\ printed[p].c = 1})
FirstRuns(k) ==
    Cardinality({p \in 1..Len(executed) : executed[p].t = k /\ executed[p].c = 1})

\* the target at position k has been attempted exactly once
AttemptedOnce(k) ==
    /\ Builds(k) = 1
    /\ FirstStarts(k) = 1
    /\ ~ARGS.dry => FirstRuns(k) = 1

\* C7: in a batch of targets with supported extensions, whatever commands
\* fail, no target is attempted twice, and the batch leads to the end of
\* the process with every target attempted exactly once.
C7_EveryTargetAttemptedOnce ==
    /\ [](\A k \in 1..Len(ARGS.test.v) :
             Builds(k) <= 1 /\ FirstStarts(k) <= 1 /\ FirstRuns(k) <= 1)
    /\ (pc = "for" /\ AllSupported)
         ~> (/\ pc = "exit"
             /\ error \in {"", "NameError"}
             /\ \A k \in 1..Len(ARGS.test.v) : AttemptedOnce(k))

\* C7 witness: a batch of two targets ended after the first command of the
\* first target failed, with both targets attempted.
C7_Witness ==
    /\ pc = "exit"
    /\ Len(ARGS.test.v) = 2
    /\ \E k \in 1..Len(executed) :
          executed[k].t = 1 /\ executed[k].c = 1 /\ executed[k].rc # 0
    /\ \A k \in 1..2 : AttemptedOnce(k)

\* C8 (as claimed): a batch with a target whose extension is not supported
\* ends with the unsupported-extension error, and nothing has been built or
\* executed for any target when it does.
C8_ExtensionRejectedBeforeAnyCommand ==
    (BatchRun /\ pc = "exit" /\ error \notin ArgumentErrors /\ ~AllSupported) =>
        error = NoExtensionError /\ NothingBuiltOrRun

\* the selector names, or resolves to, two or more testbench files
MultiFileSelector ==
    \/ ~argv.test.isstr /\ Len(argv.test.v) >= 2
    \/ argv.test = TestAll /\ \E l \in find_unit_tests(Folder(files)) : Len(l) >= 2

\* C9 (as claimed): run-only or compile-only with a selector of two or more
\* files is rejected by validation before anything is built or executed.
C9_ModeRequiresSingleTarget ==
    (BatchRun /\ (argv.run_only \/ argv.compile_only) /\ MultiFileSelector) =>
        /\ NothingBuiltOrRun
        /\ pc # "check" => (pc = "exit" /\ error \in ArgumentErrors)

\* C10: in a run of the test flow, run-only together with
\* compile-only is rejected with a fatal error and a nonzero exit status before
\* anything is built, printed or executed, for every simulator and selector.
C10_ConflictingModesRejected ==
    (FlowRun /\ argv.run_only /\ argv.compile_only) =>
        /\ NothingBuiltOrRun
        /\ pc # "check" =>
              (pc = "exit" /\ exitcode # 0 /\ error \in ArgumentErrors)

\* C10 witness: an invocation with a supported simulator, an explicit list
\* and both flags has been rejected for the conflict.
C10_Witness ==
    /\ argv.run_only /\ argv.compile_only
    /\ ~argv.test.isstr /\ Len(argv.test.v) >= 1
    /\ pc = "exit"
    /\ error = "ERROR: Both compile-only and run-only are used"

\* -test was given with no path
EmptySelector == ~argv.test.isstr /\ argv.test.v = <<>>

\* the simulator name selects one of the two backends
SimulatorSupported ==
    IsIcarus(Lower(argv.simulator)) \/ IsVerilator(Lower(argv.simulator))

\* C11 (as claimed): with an empty testbench selector validation fails with
\* the missing-testcase error, before anything is built or executed.
C11_EmptySelectorRejected ==
    (BatchRun /\ EmptySelector /\ SimulatorSupported) =>
        /\ NothingBuiltOrRun
        /\ pc # "check" => (pc = "exit" /\ error = "ERROR: No testcase passed")

\* needle occurs in s when the case of the letters of s is ignored
ContainsNoCase(needle, s) ==
    \E k \in 0..(Len(s) - Len(needle)) :
        \A j \in 1..Len(needle) : LowerChar(s[k + j]) = needle[j]

\* the backend the simulator name given on the command line selects
SelectsIcarus ==
    \/ ContainsNoCase(<<"i", "v", "e", "r", "i", "l", "o", "g">>, argv.simulator)
    \/ ContainsNoCase(<<"i", "c", "a", "r", "u", "s">>, argv.simulator)
SelectsVerilator ==
    /\ ~SelectsIcarus
    /\ ContainsNoCase(<<"v", "e", "r", "i", "l", "a", "t", "o", "r">>, argv.simulator)

\* C12: in a run of the test flow, a name containing
\* "iverilog" or "icarus" in any case selects the direct-compile backend,
\* otherwise one containing "verilator" selects the two-phase backend,
\* otherwise the run ends with the unsupported-simulator error before anything
\* is built; every pipeline of the batch is built by the backend selected.
C12_SimulatorSelection ==
    /\ (FlowRun /\ ~SelectsIcarus /\ ~SelectsVerilator) =>
          /\ NothingBuiltOrRun
          /\ pc # "check" =>
                (pc = "exit" /\ error = "ERROR: Simulator not supported")
    /\ (SelectsIcarus \/ SelectsVerilator) =>
          error # "ERROR: Simulator not supported"
    /\ \A k \in 1..Len(pipelines) :
          /\ pipelines[k].icarus = SelectsIcarus
          /\ \A c \in 1..Len(pipelines[k].cmds) :
                pipelines[k].cmds[c][1] \in
                    (IF SelectsIcarus THEN {IverilogHead, "vvp "}
                                      ELSE {VerilatorHead, "build/V"})

\* C12 witness: a name in mixed case that contains both "icarus" and
\* "verilator" has built the pipelines of two targets.
C12_Witness ==
    /\ argv.simulator = SimBoth
    /\ Len(pipelines) = 2
    /\ pipelines[2].icarus

\* the run ended without a configuration error
EndedPastValidation ==
    BatchRun /\ pc = "exit" /\ error \notin ArgumentErrors \cup {NoExtensionError}

\* every command of every pipeline built has been printed
AllCommandsPrinted ==
    \A k \in 1..Len(pipelines) : \A c \in 1..Len(pipelines[k].cmds) :
        \E p \in 1..Len(printed) :
            /\ printed[p].t = pipelines[k].t
            /\ printed[p].c = c
            /\ printed[p].cmd = pipelines[k].cmds[c]

\* C13 (as claimed): with dry-run set no command is ever passed to
\* os.system, the failure counter stays zero, and the batch ends with every
\* command of every pipeline printed and exit code 0.
C13_DryRunExecutesNothing ==
    argv.dry =>
        /\ executed = <<>>
        /\ cmdret = 0
        /\ EndedPastValidation => (AllCommandsPrinted /\ exitcode = 0)

\* the options a backend reads
OptionFields ==
    {"dotfile", "include", "main", "define", "vpi", "run_only", "compile_only", "dry"}

\* the options as the user gave them, with the simulator name lowered
UserOptions == [argv EXCEPT !.simulator = Lower(argv.simulator)]

\* the files the backend saw when it built pipeline p, as far as it looks:
\* the manifests, and the artifact of the target if it was there
FilesSeenBy(p) ==
    (files \cap {FilesF, XF})
    \cup (IF p.artifact THEN {Artifact(UserOptions.simulator, p.test)} ELSE {})

\* the pipeline the backend builds from the user's options for the target
\* and artifact presence of pipeline p
PipelineFromUserOptions(p) ==
    IF p.icarus
    THEN create_iverilog(UserOptions, p.test, FilesSeenBy(p)).cmds
    ELSE create_verilator(UserOptions, p.test, FilesSeenBy(p)).cmds

\* C14 (as claimed): the options are never changed during the batch, and the
\* pipeline of each target is the one its backend builds from the options
\* the user gave and the target's own artifact presence.
C14_OptionsImmutable ==
    /\ \A f \in OptionFields : ARGS[f] = argv[f]
    /\ \A k \in 1..Len(pipelines) :
          pipelines[k].cmds = PipelineFromUserOptions(pipelines[k])

\* C15 (as claimed): in a Verilator batch, two targets with distinct paths
\* have distinct marker files and distinct executables.
C15_DistinctArtifactsPerTarget ==
    \A j, k \in 1..Len(pipelines) :
        (~pipelines[j].icarus /\ pipelines[j].test # pipelines[k].test) =>
            /\ VerilatorMk(TestName(pipelines[j].test))
                 # VerilatorMk(TestName(pipelines[k].test))
            /\ VerilatorExecute(pipelines[j].test)
                 # VerilatorExecute(pipelines[k].test)

\* the positions where a nonempty token of the define string s starts: a
\* character other than ";" at the start of s or right after a ";"
TokenStarts(s) ==
    {a \in 1..Len(s) : s[a] # ";" /\ (a = 1 \/ s[a - 1] = ";")}

\* the nonempty token of s that starts at position a
TokenAt(s, a) ==
    SubSeq(s, a, CHOOSE b \in a..Len(s) :
                    /\ \A j \in a..b : s[j] # ";"
                    /\ (b = Len(s) \/ s[b + 1] = ";"))

\* the n-th element of a set of positions
Nth(P, n) == CHOOSE a \in P : Cardinality({b \in P : b < a}) = n - 1

\* the positions of the "-D" pieces of a rendered string
FlagStarts(r) == {p \in 1..Len(r) : r[p] = "-D"}

\* C16: get_defines renders the nonempty tokens of the define string, in
\* their order, each as one flag "-D<token> "; there are as many flags as
\* nonempty tokens and nothing else, and the empty string renders nothing.
C16_DefinesRendered ==
    pc = "returned" =>
        LET s == ARGS.define
            T == TokenStarts(s)
            F == FlagStarts(simdefs)
        IN  /\ Cardinality(F) = Cardinality(T)
            /\ s = <<>> => simdefs = <<>>
            /\ simdefs # <<>> => 1 \in F
            /\ \A n \in 1..Cardinality(T) :
                  LET tok == TokenAt(s, Nth(T, n))
                      p   == Nth(F, n)
                      q   == p + Len(tok) + 1
                  IN  /\ q <= Len(simdefs)
                      /\ SubSeq(simdefs, p, q) = <<"-D">> \o tok \o <<" ">>
                      /\ IF n = Cardinality(T) THEN q = Len(simdefs)
                                               ELSE Nth(F, n + 1) = q + 1

\* C16 witness: "A;;B" has been rendered as the two flags -DA and -DB.
C16_Witness ==
    /\ pc = "returned"
    /\ ARGS.define = <<"A", ";", ";", "B">>
    /\ simdefs = <<"-D", "A", " ", "-D", "B", " ">>

\* the manifest exists on disk (no step of a run creates or removes one)
ManifestExists(f) == f \in files

\* the manifests given with -f that exist, in the order given
ExistingManifests == SelectSeq(argv.dotfile, ManifestExists)

\* the positions of the "-f " pieces of a command
ManifestFlags(cmd) == {p \in 1..Len(cmd) : cmd[p] = "-f "}

\* C17: the compile command of every pipeline, for either backend, lists
\* after one "-f " exactly the manifests that exist, in the order given; a
\* manifest that does not exist appears nowhere in the command, and when
\* none exists the command has no "-f ".
C17_ExistingManifestsListed ==
    \A k \in 1..Len(pipelines) : \A c \in 1..Len(pipelines[k].cmds) :
        LET cmd == pipelines[k].cmds[c]
            R   == Join(ExistingManifests, <<" ">>) \o <<" ">>
        IN  IsCompileCmd(cmd) =>
              /\ \A f \in Range(argv.dotfile) \ files : ~Contains(f, cmd)
              /\ IF ExistingManifests = <<>>
                 THEN ManifestFlags(cmd) = {}
                 ELSE /\ Cardinality(ManifestFlags(cmd)) = 1
                      /\ \A p \in ManifestFlags(cmd) :
                            /\ p + Len(R) + 1 <= Len(cmd)
                            /\ SubSeq(cmd, p, p + Len(R) + 1)
                                 = <<"-f ">> \o R \o <<" ">>

\* C17 witness: of the two manifests given, the first does not exist and
\* the second does, and a compile command has been built.
C17_Witness ==
    /\ argv.dotfile = <<XF, FilesF>>
    /\ XF \notin files
    /\ FilesF \in files
    /\ \E k \in 1..Len(pipelines) : IsCompileCmd(pipelines[k].cmds[1])

\* C18 (as claimed): when the batch ends and reports the elapsed time (the
\* end instant is taken there, after the last command of the last
\* testbench), the start instant it subtracts is the one taken before the
\* first command of the first testbench.
C18_ElapsedSpansBatch ==
    (FlowRun /\ pc = "exit" /\ error = "") => start = 1

\* number of failed commands of the target at position k
FailuresOf(k) ==
    Cardinality({e \in 1..Len(executed) :
                    executed[e].t = k /\ executed[e].rc # 0})

\* C19 (as claimed): the failure counter is the number of failed commands so
\* far (so it only grows), each target has at most one of them, the counter
\* is at most the number of targets started so far, and the exit code of a
\* batch that got past validation is at most the number of its targets.
C19_AtMostOneFailurePerTarget ==
    /\ cmdret = Failures
    /\ \A k \in 1..Len(pipelines) : FailuresOf(pipelines[k].t) <= 1
    /\ cmdret <= Len(pipelines)
    /\ EndedPastValidation => exitcode <= Len(ARGS.test.v)

\* C20: with Icarus, Normal mode and dry-run off, whenever an execute
\* command is passed to os.system, svut.out exists and was last written by
\* the successful build of the same target, in the same pipeline.
C20_ExecuteRunsOwnBuild ==
    [][(/\ RequestedNormal
        /\ IsIcarus(ARGS.simulator)
        /\ pc = "cmd"
        /\ executed' # executed
        /\ IsExecuteCmd(CMD))
       => (SvutOut \in files /\ svut_out_by = i + 1)]_vars

\* C20 witness: in an Icarus batch in Normal mode the execute command of the
\* second target has run, after the builds of both targets wrote svut.out.
C20_Witness ==
    /\ RequestedNormal
    /\ IsIcarus(ARGS.simulator)
    /\ svut_out_by = 2
    /\ \E e \in 1..Len(executed) :
          executed[e].t = 2 /\ IsExecuteCmd(executed[e].cmd)
    /\ \E e \in 1..Len(executed) :
          executed[e].t = 1 /\ IsCompileCmd(executed[e].cmd) /\ executed[e].rc = 0

====
